---- MODULE Spec2Model ----
(***************************************************************************)
(* A model of pic2pin (src/pic2pin.py): the scan that groups candidate     *)
(* files by MD5 digest (initialize_files), the GPS tag extraction          *)
(* (grab_gps, ifdtag_to_decimal), the construction of one FileReport per   *)
(* group and the loop of main that filters and collects the reports.       *)
(*                                                                         *)
(* Python values are modelled as follows.                                  *)
(*   - a float is an exact rational <<n, d>> in lowest terms with d > 0;   *)
(*     None is the empty tuple <<>>;                                       *)
(*   - a dict is a function whose DOMAIN is the set of its keys; d[k] on a *)
(*     missing key raises KeyError, d.get(k) gives None;                   *)
(*   - an exception is the string of its class name, "" meaning that none  *)
(*     was raised;                                                         *)
(*   - an exifread IfdTag is a record [printable, values], an exifread     *)
(*     Ratio a record [num, den].                                          *)
(***************************************************************************)
EXTENDS Integers, Sequences, FiniteSets, TLC

VARIABLES
    pc,          \* position of the run: "scan", "assemble", "done", "crashed",
                 \* and "gps_call" / "gps_ret" for a single call of grab_gps
    mode,        \* "dir": paths is one directory (line 108); "list": line 120
    recursive,   \* main's argument recursive
    address,     \* main's argument address (a geolocator is built, line 218)
    ignore,      \* main's argument ignore
    walkDir,     \* number of the directory os.walk is yielding (0: no walk going on)
    discovered,  \* the candidates met so far, in discovery order; a path is the
                 \* number of its candidate
    hashdict,    \* the dict of initialize_files, in insertion order
    i,           \* index in hashdict of the next group main's loop takes
    built,       \* the FileReport objects constructed so far (line 222)
    reports,     \* main's list reports (line 217, 226)
    gpsCalls,    \* the paths grab_gps was called with, in call order
    geoCalls,    \* the calls of geoloc.reverse: [digest, outcome]
    exc,         \* the exception that ended the run, "" if none
    handed,      \* what the formatter was given: [format, reports], or <<>>
    gpsIn,       \* the header a single call of grab_gps works on
    gpsOut       \* its outcome

vars == <<pc, mode, recursive, address, ignore, walkDir, discovered, hashdict, i,
          built, reports, gpsCalls, geoCalls, exc, handed, gpsIn, gpsOut>>

----------------------------------------------------------------------------
(* Bounds of the model *)

MaxFiles == 3       \* candidates met in one scan
MaxDirs == 2        \* directories os.walk yields
DigestSpace == 5    \* number of distinct digests of the modelled hash

(* Program constants *)

ChunkSize == 4096   \* f.read(4096) in md5
SUPPORTED == {"jpeg"}

None == <<>>
NoError == ""

----------------------------------------------------------------------------
(* Python float arithmetic, on exact rationals *)

RECURSIVE GCD(_, _)
GCD(a, b) == IF b = 0 THEN a ELSE GCD(b, a % b)

Abs(n) == IF n < 0 THEN -n ELSE n

\* n / d with the common factor g taken out
Reduce(n, d, g) == <<n \div g, d \div g>>

Flt(n, d) == Reduce(n, d, GCD(Abs(n), d))

FAdd(x, y) == Flt(x[1] * y[2] + y[1] * x[2], x[2] * y[2])
FDivInt(x, k) == Flt(x[1], x[2] * k)
FNeg(x) == <<-x[1], x[2]>>

\* bool(x) is False for None and for 0.0 (and -0.0)
Falsy(x) == x = None \/ x[1] = 0

----------------------------------------------------------------------------
(* EXIF headers: what exifread.process_file returns *)

Ratio(n, d) == [num |-> n, den |-> d]
IfdTag(printable, values) == [printable |-> printable, values |-> values]
DMS(a, b, c) == IfdTag("", <<a, b, c>>)

EmptyDict == <<>>

\* the header without the key, or with the key bound to one of the tags
Entry(key, tags) == {EmptyDict} \cup {key :> t : t \in tags}

LatTags ==
    { DMS(Ratio(0, 1), Ratio(0, 1), Ratio(0, 1)),
      DMS(Ratio(48, 1), Ratio(16, 1), Ratio(579, 100)),
      DMS(Ratio(1, 0), Ratio(0, 1), Ratio(0, 1)),
      DMS(Ratio(1, 1), Ratio(1, 0), Ratio(0, 1)),
      DMS(Ratio(1, 1), Ratio(0, 1), Ratio(1, 0)) }
LongTags ==
    { DMS(Ratio(0, 1), Ratio(0, 1), Ratio(0, 1)),
      DMS(Ratio(16, 1), Ratio(22, 1), Ratio(1, 2)),
      DMS(Ratio(16, 1), Ratio(22, 1), Ratio(1, 0)) }
LatRefTags == { IfdTag(r, <<r>>) : r \in {"S", "N", "s"} }
LongRefTags == { IfdTag(r, <<r>>) : r \in {"W", "E"} }
AltTags == { IfdTag("", <<r>>) : r \in {Ratio(0, 1), Ratio(171, 2), Ratio(5, 0)} }
AltRefTags == { IfdTag("0", <<0>>), IfdTag("1", <<1>>) }

Headers ==
    { a @@ b @@ c @@ d @@ e @@ f :
        a \in Entry("GPS GPSLatitude", LatTags),
        b \in Entry("GPS GPSLatitudeRef", LatRefTags),
        c \in Entry("GPS GPSLongitude", LongTags),
        d \in Entry("GPS GPSLongitudeRef", LongRefTags),
        e \in Entry("GPS GPSAltitude", AltTags),
        f \in Entry("GPS GPSAltitudeRef", AltRefTags) }

\* dict.get(key): the value, or None
Get(dict, key) == IF key \in DOMAIN dict THEN dict[key] ELSE None

\* the outcome of a call: the exception raised, or the value returned
Raise(e) == [exc |-> e, value |-> None]
Return(v) == [exc |-> NoError, value |-> v]

\* num / den of Python: ZeroDivisionError when den is 0
TrueDiv(r) == IF r.den = 0 THEN Raise("ZeroDivisionError") ELSE Return(Flt(r.num, r.den))

----------------------------------------------------------------------------
(* ifdtag_to_decimal and grab_gps *)

\* lines 135-138 from the outcomes of the three divisions num / den, which are
\* made in this order: the first that raises ends the call
DegMinSec(degree, minute, second) ==
    IF degree.exc # NoError THEN degree
    ELSE IF minute.exc # NoError THEN minute
    ELSE IF second.exc # NoError THEN second
    ELSE Return(FAdd(FAdd(degree.value, FDivInt(minute.value, 60)),
                     FDivInt(second.value, 3600)))

ifdtag_to_decimal(tag) ==
    DegMinSec(TrueDiv(tag.values[1]), TrueDiv(tag.values[2]), TrueDiv(tag.values[3]))

\* line 176: header['GPS GPSAltitudeRef'] == 1 compares an IfdTag object, which
\* defines no __eq__, with an int: Python falls back to identity, so it is False
IfdTagEqInt(tag, n) == FALSE

\* lines 164-171 from the outcomes of the two ifdtag_to_decimal calls
SignLatLong(header, latitude, longitude) ==
    IF latitude.exc # NoError THEN latitude
    ELSE IF longitude.exc # NoError THEN longitude
    ELSE IF "GPS GPSLatitudeRef" \notin DOMAIN header THEN Raise("KeyError")
    ELSE IF "GPS GPSLongitudeRef" \notin DOMAIN header THEN Raise("KeyError")
    ELSE Return(("longitude" :> IF header["GPS GPSLongitudeRef"].printable = "W"
                                THEN FNeg(longitude.value) ELSE longitude.value)
                @@ ("latitude" :> IF header["GPS GPSLatitudeRef"].printable = "S"
                                  THEN FNeg(latitude.value) ELSE latitude.value))

\* lines 159-171: the latitude / longitude block, from meta = {}.  An IfdTag is
\* truthy, so "if lat_dms and long_dms" asks whether both tags are there.
GpsLatLong(header) ==
    IF Get(header, "GPS GPSLatitude") = None \/ Get(header, "GPS GPSLongitude") = None
    THEN Return(EmptyDict)
    ELSE SignLatLong(header, ifdtag_to_decimal(header["GPS GPSLatitude"]),
                     ifdtag_to_decimal(header["GPS GPSLongitude"]))

\* lines 175-178 from the outcome of alt_ratio.num / alt_ratio.den
SignAltitude(header, meta, altitude) ==
    IF altitude.exc # NoError THEN altitude
    ELSE IF "GPS GPSAltitudeRef" \notin DOMAIN header THEN Raise("KeyError")
    ELSE Return(meta @@ ("altitude" :> IF IfdTagEqInt(header["GPS GPSAltitudeRef"], 1)
                                       THEN FNeg(altitude.value) ELSE altitude.value))

\* lines 161, 173-178: the altitude block, adding to meta
GpsAltitude(header, meta) ==
    IF Get(header, "GPS GPSAltitude") = None THEN Return(meta)
    ELSE SignAltitude(header, meta, TrueDiv(header["GPS GPSAltitude"].values[1]))

\* the altitude block after the latitude / longitude block, unless that raised
ThenAltitude(header, ll) ==
    IF ll.exc # NoError THEN ll ELSE GpsAltitude(header, ll.value)

\* grab_gps from the header that exifread.process_file returned (lines 158-180)
GrabGpsHeader(header) == ThenAltitude(header, GpsLatLong(header))

----------------------------------------------------------------------------
(* Files: a file's bytes are <<signature byte, EXIF block number>> *)

JpegMagic == 255    \* first byte of the JPEG signature imghdr recognises
PngMagic == 137     \* first byte of the PNG signature: an unsupported type

\* the EXIF blocks the modelled files carry
ExifBlocks ==
    << \* 1: no GPS tag at all
       EmptyDict,
       \* 2: a complete southern / western position with an altitude
       ("GPS GPSLatitude" :> DMS(Ratio(48, 1), Ratio(16, 1), Ratio(579, 100)))
         @@ ("GPS GPSLatitudeRef" :> IfdTag("S", <<"S">>))
         @@ ("GPS GPSLongitude" :> DMS(Ratio(16, 1), Ratio(22, 1), Ratio(1, 2)))
         @@ ("GPS GPSLongitudeRef" :> IfdTag("W", <<"W">>))
         @@ ("GPS GPSAltitude" :> IfdTag("", <<Ratio(171, 2)>>))
         @@ ("GPS GPSAltitudeRef" :> IfdTag("0", <<0>>)),
       \* 3: latitude 0, longitude 0, no altitude
       ("GPS GPSLatitude" :> DMS(Ratio(0, 1), Ratio(0, 1), Ratio(0, 1)))
         @@ ("GPS GPSLatitudeRef" :> IfdTag("N", <<"N">>))
         @@ ("GPS GPSLongitude" :> DMS(Ratio(0, 1), Ratio(0, 1), Ratio(0, 1)))
         @@ ("GPS GPSLongitudeRef" :> IfdTag("E", <<"E">>)),
       \* 4: a zero denominator in the seconds of the latitude
       ("GPS GPSLatitude" :> DMS(Ratio(1, 1), Ratio(0, 1), Ratio(1, 0)))
         @@ ("GPS GPSLatitudeRef" :> IfdTag("N", <<"N">>))
         @@ ("GPS GPSLongitude" :> DMS(Ratio(16, 1), Ratio(22, 1), Ratio(1, 2)))
         @@ ("GPS GPSLongitudeRef" :> IfdTag("E", <<"E">>)),
       \* 5: both magnitudes, no reference tag
       ("GPS GPSLatitude" :> DMS(Ratio(48, 1), Ratio(16, 1), Ratio(579, 100)))
         @@ ("GPS GPSLongitude" :> DMS(Ratio(16, 1), Ratio(22, 1), Ratio(1, 2))),
       \* 6: an altitude only
       ("GPS GPSAltitude" :> IfdTag("", <<Ratio(171, 2)>>))
         @@ ("GPS GPSAltitudeRef" :> IfdTag("0", <<0>>)) >>

FileBytes == {<<PngMagic, 1>>} \cup {<<JpegMagic, e>> : e \in DOMAIN ExifBlocks}

\* imghdr.what on the bytes of a file that could be opened
imghdr_what(bytes) ==
    IF bytes[1] = JpegMagic THEN "jpeg"
    ELSE IF bytes[1] = PngMagic THEN "png"
    ELSE "None"

\* exifread.process_file(fd, details=False)
process_file(bytes) ==
    IF bytes[1] = JpegMagic THEN ExifBlocks[bytes[2]] ELSE EmptyDict

\* is_valid_file on a file that could be opened
is_valid_file(bytes) == imghdr_what(bytes) \in SUPPORTED

\* f.read(ChunkSize) at offset pos: the next chunk, empty at the end of the file
ReadChunk(bytes, pos) ==
    SubSeq(bytes, pos + 1, IF pos + ChunkSize < Len(bytes) THEN pos + ChunkSize ELSE Len(bytes))

\* hash_md5.update(chunk): a deterministic fold of the bytes into the hash state
RECURSIVE HashUpdate(_, _)
HashUpdate(h, chunk) ==
    IF chunk = <<>> THEN h
    ELSE HashUpdate((h * 31 + Head(chunk)) % DigestSpace, Tail(chunk))

\* the loop of md5: read chunk after chunk until the empty one
RECURSIVE Md5Loop(_, _, _, _)
Md5Loop(h, bytes, pos, chunk) ==
    IF chunk = <<>> THEN h
    ELSE Md5Loop(HashUpdate(h, chunk), bytes, pos + Len(chunk),
                 ReadChunk(bytes, pos + Len(chunk)))

\* md5 of a file that could be opened and read; the digest is a number
md5(bytes) == Md5Loop(0, bytes, 0, ReadChunk(bytes, 0))

----------------------------------------------------------------------------
(* initialize_files *)

\* position of digest among the keys of the ordered dict hd, 0 if it is no key
KeyIndex(hd, digest) ==
    IF \E k \in 1..Len(hd) : hd[k].digest = digest
    THEN CHOOSE k \in 1..Len(hd) : hd[k].digest = digest
    ELSE 0

\* a slip in lines 114-117: the group is assigned anew even when the key exists
UpdateGroupOverwrite(hd, k, digest, path) ==
    IF k # 0
    THEN [hd EXCEPT ![k].paths = <<path>>]
    ELSE Append(hd, [digest |-> digest, paths |-> <<path>>])

\* a dict that does not keep insertion order: a new key goes to the front
UpdateGroupFront(hd, k, digest, path) ==
    IF k # 0
    THEN [hd EXCEPT ![k].paths = Append(@, path)]
    ELSE <<[digest |-> digest, paths |-> <<path>>]>> \o hd

\* lines 114-117 and 124-127, k being the place of the key: append the path to
\* its group, or start a group at the end of the dict
UpdateGroup(hd, k, digest, path) ==
    IF k # 0
    THEN [hd EXCEPT ![k].paths = Append(@, path)]
    ELSE Append(hd, [digest |-> digest, paths |-> <<path>>])

AddToHashdict(hd, digest, path) == UpdateGroup(hd, KeyIndex(hd, digest), digest, path)

\* lines 112-117 / 122-127 for one candidate, valid saying that it was sniffed as
\* supported and failed that imghdr.what or md5 could not open or read it
ScanOutcome(path, bytes, sniffOk, valid, failed) ==
    /\ discovered' = Append(discovered,
          [path |-> path, bytes |-> bytes, sniffOk |-> sniffOk,
           hashed |-> valid /\ ~failed])
    /\ IF failed
       THEN /\ pc' = "crashed"
            /\ exc' = "IOError"
            /\ hashdict' = hashdict
       ELSE /\ pc' = pc
            /\ exc' = exc
            /\ hashdict' = IF valid THEN AddToHashdict(hashdict, md5(bytes), path)
                                    ELSE hashdict

\* one candidate of either loop: is_valid_file, md5, the dict update.  sniffOk and
\* hashOk say whether the file could be opened and read by imghdr.what and by md5.
ScanCandidate(path, bytes, sniffOk, hashOk) ==
    ScanOutcome(path, bytes, sniffOk, sniffOk /\ is_valid_file(bytes),
                ~sniffOk \/ (is_valid_file(bytes) /\ ~hashOk))

----------------------------------------------------------------------------
(* FileReport and the loop of main *)

\* the bytes of the file at a path the scan met
BytesOf(path) ==
    discovered[CHOOSE k \in 1..Len(discovered) : discovered[k].path = path].bytes

\* grab_gps(file_path): open (line 155), process_file, then lines 158-180
grab_gps(bytes, openOk) ==
    IF ~openOk THEN Raise("IOError") ELSE GrabGpsHeader(process_file(bytes))

\* what geoloc.reverse(...).address can do
GeoOutcomes == {"found", "not_found", "TypeError", "GeocoderTimedOut", "GeocoderServiceError"}

\* lines 31-34: try: address = geoloc.reverse(query).address except TypeError: pass
\*   found: reverse returns a Location; not_found: it returns None, and None.address
\*   raises AttributeError; the others: reverse raises that exception
ReverseAddress(outcome) ==
    CASE outcome = "found" -> Return("addr")
      [] outcome = "not_found" -> Raise("AttributeError")
      [] outcome = "TypeError" -> Return("")
      [] OTHER -> Raise(outcome)

\* lines 21-34 from the outcome gps of grab_gps(paths[0]) and the outcome addr of
\* the address lookup, made when lookup holds
NewReport(digest, paths, gps, lookup, addr, geoOutcome) ==
    IF gps.exc # NoError
    THEN [exc |-> gps.exc, value |-> None, gps |-> paths[1], geo |-> <<>>]
    ELSE IF lookup /\ addr.exc # NoError
    THEN [exc |-> addr.exc, value |-> None, gps |-> paths[1],
          geo |-> <<[digest |-> digest, outcome |-> geoOutcome]>>]
    ELSE [exc |-> NoError,
          value |-> [digest |-> digest, paths |-> paths,
                     latitude |-> Get(gps.value, "latitude"),
                     longitude |-> Get(gps.value, "longitude"),
                     altitude |-> Get(gps.value, "altitude"),
                     address |-> IF lookup THEN addr.value ELSE ""],
          gps |-> paths[1],
          geo |-> IF lookup THEN <<[digest |-> digest, outcome |-> geoOutcome]>>
                            ELSE <<>>]

\* line 30: geoloc is not None and self.latitude is not None
Lookup(geoloc, gps) == geoloc /\ Get(gps.value, "latitude") # None

\* lines 24-34 from the outcome gps of grab_gps(paths[0])
ReportFrom(digest, paths, geoloc, gps, geoOutcome) ==
    NewReport(digest, paths, gps, Lookup(geoloc, gps), ReverseAddress(geoOutcome),
              geoOutcome)

\* FileReport.__init__(digest, paths, geoloc): value is the object built, gps the
\* argument of the grab_gps call, geo the outcomes of the reverse calls made
FileReport(digest, paths, geoloc, openOk, geoOutcome) ==
    ReportFrom(digest, paths, geoloc, grab_gps(BytesOf(paths[1]), openOk), geoOutcome)

\* line 223: the condition under which main drops the report
Ignored(ign, file_report) ==
    ign /\ Falsy(file_report.latitude) /\ Falsy(file_report.longitude)
        /\ Falsy(file_report.altitude)

----------------------------------------------------------------------------
(* The run of main *)

Init ==
    /\ pc = "scan"
    /\ mode \in {"dir", "list"}
    /\ recursive \in BOOLEAN
    /\ address \in BOOLEAN
    /\ ignore \in BOOLEAN
    /\ walkDir = IF mode = "dir" THEN 1 ELSE 0
    /\ discovered = <<>>
    /\ hashdict = <<>>
    /\ i = 1
    /\ built = <<>>
    /\ reports = <<>>
    /\ gpsCalls = <<>>
    /\ geoCalls = <<>>
    /\ exc = NoError
    /\ handed = <<>>
    /\ gpsIn = EmptyDict
    /\ gpsOut = <<>>

\* lines 109-117: one file of the directory os.walk is yielding
WalkFile ==
    /\ pc = "scan"
    /\ mode = "dir"
    /\ Len(discovered) < MaxFiles
    /\ \E bytes \in FileBytes, sniffOk \in BOOLEAN, hashOk \in BOOLEAN :
          ScanCandidate(Len(discovered) + 1, bytes, sniffOk, hashOk)
    /\ UNCHANGED <<mode, recursive, address, ignore, walkDir, i, built, reports,
                   gpsCalls, geoCalls, handed, gpsIn, gpsOut>>

\* lines 109, 118-119: os.walk goes on to the next directory, when recursive
WalkNextDir ==
    /\ pc = "scan"
    /\ mode = "dir"
    /\ recursive
    /\ walkDir < MaxDirs
    /\ walkDir' = walkDir + 1
    /\ UNCHANGED <<pc, mode, recursive, address, ignore, discovered, hashdict, i, built,
                   reports, gpsCalls, geoCalls, exc, handed, gpsIn, gpsOut>>

\* lines 121-127: one path of the list
ListPath ==
    /\ pc = "scan"
    /\ mode = "list"
    /\ Len(discovered) < MaxFiles
    /\ \E bytes \in FileBytes, sniffOk \in BOOLEAN, hashOk \in BOOLEAN :
          ScanCandidate(Len(discovered) + 1, bytes, sniffOk, hashOk)
    /\ UNCHANGED <<mode, recursive, address, ignore, walkDir, i, built, reports,
                   gpsCalls, geoCalls, handed, gpsIn, gpsOut>>

\* line 128, 219: initialize_files returns; argparse gives at least one path
ReturnHashdict ==
    /\ pc = "scan"
    /\ mode = "list" => Len(discovered) >= 1
    /\ pc' = "assemble"
    /\ walkDir' = 0
    /\ UNCHANGED <<mode, recursive, address, ignore, discovered, hashdict, i,
                   built, reports, gpsCalls, geoCalls, exc, handed, gpsIn, gpsOut>>

\* lines 222-226 from the outcome r of FileReport(digest, paths, geoloc=geolocator)
Collect(r) ==
    /\ gpsCalls' = Append(gpsCalls, r.gps)
    /\ geoCalls' = geoCalls \o r.geo
    /\ IF r.exc # NoError
       THEN /\ pc' = "crashed"
            /\ exc' = r.exc
            /\ UNCHANGED <<i, built, reports>>
       ELSE /\ built' = Append(built, r.value)
            /\ reports' = IF Ignored(ignore, r.value) THEN reports
                                                      ELSE Append(reports, r.value)
            /\ i' = i + 1
            /\ UNCHANGED <<pc, exc>>

\* lines 221-226: one iteration of the loop over init.items()
BuildReport ==
    /\ pc = "assemble"
    /\ i <= Len(hashdict)
    /\ \E openOk \in BOOLEAN, geoOutcome \in GeoOutcomes :
          Collect(FileReport(hashdict[i].digest, hashdict[i].paths, address,
                             openOk, geoOutcome))
    /\ UNCHANGED <<mode, recursive, address, ignore, walkDir, discovered, hashdict,
                   handed, gpsIn, gpsOut>>

\* lines 229-234: the loop is over, the chosen formatter is given reports
Format ==
    /\ pc = "assemble"
    /\ i > Len(hashdict)
    /\ \E format \in {"plain", "json", "kml"} :
          handed' = <<[format |-> format, reports |-> reports]>>
    /\ pc' = "done"
    /\ UNCHANGED <<mode, recursive, address, ignore, walkDir, discovered, hashdict, i,
                   built, reports, gpsCalls, geoCalls, exc, gpsIn, gpsOut>>

Next == WalkFile \/ WalkNextDir \/ ListPath \/ ReturnHashdict \/ BuildReport \/ Format

Spec == Init /\ [][Next]_vars

----------------------------------------------------------------------------
(* A single call of grab_gps on a header drawn from Headers *)

InitGps ==
    /\ pc = "gps_call"
    /\ gpsIn \in Headers
    /\ gpsOut = <<>>
    /\ mode = "list"
    /\ recursive = FALSE
    /\ address = FALSE
    /\ ignore = FALSE
    /\ walkDir = 0
    /\ discovered = <<>>
    /\ hashdict = <<>>
    /\ i = 1
    /\ built = <<>>
    /\ reports = <<>>
    /\ gpsCalls = <<>>
    /\ geoCalls = <<>>
    /\ exc = NoError
    /\ handed = <<>>

GrabGps ==
    /\ pc = "gps_call"
    /\ gpsOut' = <<GrabGpsHeader(gpsIn)>>
    /\ pc' = "gps_ret"
    /\ UNCHANGED <<mode, recursive, address, ignore, walkDir, discovered, hashdict, i,
                   built, reports, gpsCalls, geoCalls, exc, handed, gpsIn>>

NextGps == GrabGps

SpecGps == InitGps /\ [][NextGps]_vars

----------------------------------------------------------------------------
(* Properties *)

Range(seq) == {seq[k] : k \in 1..Len(seq)}

\* the candidates whose bytes were sniffed as supported and hashed
HashedCandidates == {k \in 1..Len(discovered) : discovered[k].hashed}

\* the candidates on which imghdr.what or md5 could not open or read the file
FailedCandidates ==
    {k \in 1..Len(discovered) :
        \/ ~discovered[k].sniffOk
        \/ is_valid_file(discovered[k].bytes) /\ ~discovered[k].hashed}

\* position of a path in the discovery order
DiscoveryIndex(path) == CHOOSE k \in 1..Len(discovered) : discovered[k].path = path

\* position in the discovery order of the first hashed candidate with the digest
FirstSeen(digest) ==
    CHOOSE k \in HashedCandidates :
        /\ md5(discovered[k].bytes) = digest
        /\ \A j \in HashedCandidates : md5(discovered[j].bytes) = digest => k <= j

\* C1: any two hashed candidates with identical bytes are paths of one group, the
\* one keyed by their digest, wherever they stand in the discovery order; and
\* every path of a group has the digest that keys the group.
C1_SameBytesSameGroup ==
    /\ \A a \in HashedCandidates, b \in HashedCandidates :
          discovered[a].bytes = discovered[b].bytes =>
             \E g \in 1..Len(hashdict) :
                /\ hashdict[g].digest = md5(discovered[a].bytes)
                /\ discovered[a].path \in Range(hashdict[g].paths)
                /\ discovered[b].path \in Range(hashdict[g].paths)
    /\ \A g \in 1..Len(hashdict) : \A p \in Range(hashdict[g].paths) :
          md5(BytesOf(p)) = hashdict[g].digest

\* two byte-identical files, a file of another digest discovered between them, and
\* the two in one group when initialize_files has returned
C1_Witness ==
    /\ pc = "assemble"
    /\ \E a \in HashedCandidates, b \in HashedCandidates, c \in HashedCandidates :
          /\ a < b /\ b < c
          /\ discovered[a].bytes = discovered[c].bytes
          /\ md5(discovered[b].bytes) # md5(discovered[a].bytes)
          /\ \E g \in 1..Len(hashdict) :
                hashdict[g].paths = <<discovered[a].path, discovered[c].path>>

\* C2: a candidate that imghdr.what or md5 could not open or read is left out of
\* the groups and does not end the run.
C2_IOFailureIsolated ==
    \A k \in FailedCandidates :
        /\ pc # "crashed"
        /\ \A g \in 1..Len(hashdict) : discovered[k].path \notin Range(hashdict[g].paths)

\* C7: the records given to the formatter stand in the order in which their
\* digests were first discovered, and the paths of each record in the order in
\* which they were discovered.
C7_FirstDiscoveryOrder ==
    pc = "done" =>
        LET recs == handed[1].reports
        IN  /\ \A x \in 1..Len(recs), y \in 1..Len(recs) :
                  x < y <=> FirstSeen(recs[x].digest) < FirstSeen(recs[y].digest)
            /\ \A x \in 1..Len(recs) :
                  \A p \in 1..Len(recs[x].paths), q \in 1..Len(recs[x].paths) :
                      p < q => DiscoveryIndex(recs[x].paths[p])
                                  < DiscoveryIndex(recs[x].paths[q])

\* the formatter is given two records, the first of them with two paths that were
\* not discovered one right after the other
C7_Witness ==
    /\ pc = "done"
    /\ Len(handed[1].reports) = 2
    /\ Len(handed[1].reports[1].paths) = 2
    /\ DiscoveryIndex(handed[1].reports[1].paths[2])
          > DiscoveryIndex(handed[1].reports[2].paths[1])

\* a magnitude tag all of whose denominators are non-zero
NonZeroDen(tag) == \A k \in 1..Len(tag.values) : tag.values[k].den # 0

\* a latitude and a longitude tag are both there and one has a zero denominator
ZeroDenLatLong(header) ==
    /\ "GPS GPSLatitude" \in DOMAIN header
    /\ "GPS GPSLongitude" \in DOMAIN header
    /\ ~(NonZeroDen(header["GPS GPSLatitude"]) /\ NonZeroDen(header["GPS GPSLongitude"]))

\* the magnitude negated when the reference tag is there and prints as ref
Signed(header, refKey, ref, magnitude) ==
    IF refKey \in DOMAIN header /\ header[refKey].printable = ref
    THEN FNeg(magnitude) ELSE magnitude

\* C3: with both magnitude tags (of non-zero denominators, and no altitude tag),
\* grab_gps returns without error, the latitude negated exactly when the latitude
\* reference prints as S, the longitude exactly when the longitude reference
\* prints as W, an absent reference leaving the magnitude positive.
C3_HemisphereSign ==
    ( /\ pc = "gps_ret"
      /\ "GPS GPSLatitude" \in DOMAIN gpsIn
      /\ "GPS GPSLongitude" \in DOMAIN gpsIn
      /\ "GPS GPSAltitude" \notin DOMAIN gpsIn
      /\ NonZeroDen(gpsIn["GPS GPSLatitude"])
      /\ NonZeroDen(gpsIn["GPS GPSLongitude"]) )
    => /\ gpsOut[1].exc = NoError
       /\ Get(gpsOut[1].value, "latitude")
             = Signed(gpsIn, "GPS GPSLatitudeRef", "S",
                      ifdtag_to_decimal(gpsIn["GPS GPSLatitude"]).value)
       /\ Get(gpsOut[1].value, "longitude")
             = Signed(gpsIn, "GPS GPSLongitudeRef", "W",
                      ifdtag_to_decimal(gpsIn["GPS GPSLongitude"]).value)

\* C4: when the file grab_gps was called on (and could open) has a zero
\* denominator in its latitude or longitude tag, the run is not ended by it: the
\* record of that group is built, with latitude and longitude absent.
C4_ZeroDenominatorHandled ==
    \A k \in 1..Len(gpsCalls) :
        ( /\ ZeroDenLatLong(process_file(BytesOf(gpsCalls[k])))
          /\ ~(pc = "crashed" /\ exc = "IOError" /\ k = Len(gpsCalls)) )
        => /\ k <= Len(built)
           /\ built[k].latitude = None
           /\ built[k].longitude = None

\* C5: a call of the resolver that does not give an address leaves a record of
\* that group built, with an empty address.
C5_ResolutionFailureIsolated ==
    \A k \in 1..Len(geoCalls) :
        geoCalls[k].outcome # "found" =>
            \E b \in 1..Len(built) :
                /\ built[b].digest = geoCalls[k].digest
                /\ built[b].address = ""

\* C6: a record built is missing from reports exactly when ignore is set and its
\* latitude, longitude and altitude are all absent.
C6_IgnoreOnlyFullyAbsent ==
    \A b \in 1..Len(built) :
        (\A r \in 1..Len(reports) : reports[r].digest # built[b].digest)
        <=> ( /\ ignore
              /\ built[b].latitude = None
              /\ built[b].longitude = None
              /\ built[b].altitude = None )

\* C8: for every group whose report main has started to build (the file being
\* openable and the resolver not raising), grab_gps was called exactly once on
\* the paths of the group, on its first path, and exactly one record was built,
\* with the digest and all the paths of the group; at the end of the loop there
\* are as many grab_gps calls as groups, and at most one resolver call a record.
C8_OneExtractionOneRecord ==
    ~(pc = "crashed" /\ exc \notin {"ZeroDivisionError", "KeyError"}) =>
        /\ \A g \in 1..Len(hashdict) :
              g <= Len(gpsCalls) =>
                 /\ gpsCalls[g] = hashdict[g].paths[1]
                 /\ Cardinality({k \in 1..Len(gpsCalls) :
                                    gpsCalls[k] \in Range(hashdict[g].paths)}) = 1
                 /\ Cardinality({b \in 1..Len(built) :
                                    /\ built[b].digest = hashdict[g].digest
                                    /\ built[b].paths = hashdict[g].paths}) = 1
        /\ pc = "done" => Len(gpsCalls) = Len(hashdict)
        /\ \A b \in 1..Len(built) :
              Cardinality({k \in 1..Len(geoCalls) :
                              geoCalls[k].digest = built[b].digest}) <= 1

\* C9: (for a header whose altitude tag, if any, has a non-zero denominator) what
\* grab_gps returns has latitude and longitude both or neither, both only when
\* both magnitude tags are there; and when a magnitude tag is missing it returns,
\* without error, a result that has neither.
C9_LatLongTogether ==
    ( /\ pc = "gps_ret"
      /\ "GPS GPSAltitude" \in DOMAIN gpsIn => NonZeroDen(gpsIn["GPS GPSAltitude"]) ) =>
        /\ gpsOut[1].exc = NoError =>
              /\ "latitude" \in DOMAIN gpsOut[1].value
                    <=> "longitude" \in DOMAIN gpsOut[1].value
              /\ "latitude" \in DOMAIN gpsOut[1].value =>
                    {"GPS GPSLatitude", "GPS GPSLongitude"} \subseteq DOMAIN gpsIn
        /\ ~({"GPS GPSLatitude", "GPS GPSLongitude"} \subseteq DOMAIN gpsIn) =>
              /\ gpsOut[1].exc = NoError
              /\ "latitude" \notin DOMAIN gpsOut[1].value
              /\ "longitude" \notin DOMAIN gpsOut[1].value

\* C10: with an altitude tag of non-zero denominator (and a latitude / longitude
\* block that raises nothing), grab_gps returns without error the altitude
\* num / den, negated exactly when the altitude reference tag is there with the
\* value 1, an absent reference leaving it as it is.
C10_Altitude ==
    ( /\ pc = "gps_ret"
      /\ "GPS GPSAltitude" \in DOMAIN gpsIn
      /\ NonZeroDen(gpsIn["GPS GPSAltitude"])
      /\ GpsLatLong(gpsIn).exc = NoError )
    => /\ gpsOut[1].exc = NoError
       /\ Get(gpsOut[1].value, "altitude")
             = IF /\ "GPS GPSAltitudeRef" \in DOMAIN gpsIn
                  /\ gpsIn["GPS GPSAltitudeRef"].values[1] = 1
               THEN FNeg(TrueDiv(gpsIn["GPS GPSAltitude"].values[1]).value)
               ELSE TrueDiv(gpsIn["GPS GPSAltitude"].values[1]).value

====
